---- MODULE Spec2Model ----
(***************************************************************************)
(* Session linking and one-shot image injection of src/app.py:             *)
(* get_elevenlabs_signed_url mints a session id and parks it in            *)
(* pending_session_id, upload_image_get_url records an uploaded file under *)
(* a session id in image_context, chat_completions links the caller's      *)
(* user id to a session id (session_map), injects the session's image into *)
(* the message list and removes it from image_context.                     *)
(*                                                                         *)
(* Every handler is written once, as a step function over the statements   *)
(* of the source that touch the process-wide tables.  Spec runs a handler  *)
(* to its return in one action (requests served one after the other);      *)
(* SpecThreads lets the handlers of several requests interleave statement  *)
(* by statement (Flask's threaded server, no lock in the source).          *)
(***************************************************************************)
EXTENDS Naturals, Sequences, FiniteSets, TLC

VARIABLES
    image_context,       \* app.py:38  dict session_id -> filename, in insertion order
    session_map,         \* app.py:39  dict elevenlabs_user_id -> session_id
    pending_session_id,  \* app.py:40  the unclaimed session id, or None
    uploads,             \* files present in UPLOAD_FOLDER
    llm_provider,        \* os.getenv('LLM_PROVIDER')
    api_key_set,         \* whether <PROVIDER>_API_KEY is configured
    next_session,        \* how many session ids uuid4 has minted
    next_file,           \* how many unique filenames uuid4 has minted
    req,                 \* per worker thread: the locals of the request it serves
    tagged,              \* history: filename -> session_id it was uploaded under,
                         \*   kept while a table or a request's locals hold the filename
    tick,                \* history: parity of the number of handler steps taken
    factory              \* llm_factory.py:6, a call of create_llm_service from
                         \*   outside the handler: its provider argument and result

vars == <<image_context, session_map, pending_session_id, uploads, llm_provider,
          api_key_set, next_session, next_file, req, tagged, tick, factory>>

----------------------------------------------------------------------------
(* Bounds *)

MaxSessions == 2
MaxFiles == 2
MaxMsgs == 1
ThreadSessions == 1      \* sessions issued under SpecThreads
ThreadFiles == 2         \* files uploaded under SpecThreads
NoIdFiles == 3           \* files uploaded under SpecNoId

(* Python's None; session ids and filenames are 1, 2, ... *)
None == 0

Sessions == 1..MaxSessions
ForeignSession == MaxSessions + 1   \* a session_id form value no issue call returned
Files == 1..(MaxFiles + ThreadFiles + NoIdFiles)   \* every filename any specification mints
UserIds == {"E1", "E2"}
Threads == {"t1", "t2"}
MainThread == "t1"

----------------------------------------------------------------------------
(* Python dict with insertion order, as a sequence of <<key, value>> pairs *)

DictKeys(d) == [i \in 1..Len(d) |-> d[i][1]]

DictHas(d, k) == \E i \in 1..Len(d) : d[i][1] = k

DictGet(d, k) ==
    IF DictHas(d, k) THEN d[CHOOSE i \in 1..Len(d) : d[i][1] = k][2] ELSE None

DictSet(d, k, v) ==
    IF DictHas(d, k)
    THEN [i \in 1..Len(d) |-> IF d[i][1] = k THEN <<k, v>> ELSE d[i]]
    ELSE Append(d, <<k, v>>)

DictPop(d, k) == SelectSeq(d, LAMBDA e : e[1] # k)

----------------------------------------------------------------------------
(* Provider names, as sequences of characters, and str.lower() *)

Uppercase == <<"A", "B", "C", "D", "E", "F", "G", "H", "I", "J", "K", "L", "M",
               "N", "O", "P", "Q", "R", "S", "T", "U", "V", "W", "X", "Y", "Z">>
Lowercase == <<"a", "b", "c", "d", "e", "f", "g", "h", "i", "j", "k", "l", "m",
               "n", "o", "p", "q", "r", "s", "t", "u", "v", "w", "x", "y", "z">>

LowerChar(c) ==
    IF \E i \in 1..26 : Uppercase[i] = c
    THEN Lowercase[CHOOSE i \in 1..26 : Uppercase[i] = c]
    ELSE c

Lower(name) == [i \in 1..Len(name) |-> LowerChar(name[i])]

openai == <<"o", "p", "e", "n", "a", "i">>
gemini == <<"g", "e", "m", "i", "n", "i">>

(* the values LLM_PROVIDER and the provider argument take in the model *)
ProviderNames ==
    {openai, <<"O", "p", "e", "n", "A", "I">>,
     gemini, <<"G", "E", "M", "I", "N", "I">>,
     <<"a", "n", "t", "h", "r", "o", "p", "i", "c">>}

----------------------------------------------------------------------------
(* Request payloads and message lists *)

Absent == "<absent>"        \* the field is not in the JSON body (data.get gives None)
Unhashable == "<object>"    \* the field holds a non-empty JSON object or array

possible_user_id_fields ==
    <<"user_id", "userId", "user", "id", "conversation_id", "conversationId">>

FieldNames == {possible_user_id_fields[i] : i \in 1..Len(possible_user_id_fields)}
FieldValues == UserIds \cup {Absent, "", Unhashable}

(* Python truthiness of a field value: None and "" are false *)
Truthy(v) == v \notin {Absent, ""}

(* app.py:271-279: data.get('user_id'), then the first candidate field that is
   present with a true value *)
RECURSIVE ProbeFrom(_, _, _)
ProbeFrom(data, i, found) ==
    IF i > Len(possible_user_id_fields) THEN found
    ELSE IF data[possible_user_id_fields[i]] # Absent /\ Truthy(data[possible_user_id_fields[i]])
         THEN data[possible_user_id_fields[i]]
         ELSE ProbeFrom(data, i + 1, found)

(* ExtractUserId reading the user_id field only *)
ExtractUserId_UserIdOnly(data) == data["user_id"]

ExtractUserId(data) == ProbeFrom(data, 1, data["user_id"])

OnlyField(f, v) == [x \in FieldNames |-> IF x = f THEN v ELSE Absent]

(* a body with none of the candidate fields *)
EmptyPayload == [x \in FieldNames |-> Absent]

(* the payloads of well-formed requests: the documented user_id field absent or
   holding an id, and one alternative field name *)
RequestPayloads ==
    {OnlyField("user_id", v) : v \in UserIds \cup {Absent}}
    \cup {OnlyField("conversation_id", "E2")}

Roles == {"system", "user"}
Contents == <<"m1", "m2", "m3", "m4">>
SystemNote == "(System note: The user has shared an image.)"

Message(role, i) == [role |-> role, content |-> Contents[i], image_url |-> None]

(* the message lists of MaxMsgs messages: the handler reads the role of the
   first message only, so that role varies and the later messages are user
   turns; message i carries text i.  SpecSplice has the lists of every length
   and every combination of roles. *)
MessageLists ==
    {[i \in 1..MaxMsgs |-> Message(IF i = 1 THEN first ELSE "user", i)] : first \in Roles}

(* app.py:377-392 *)
ImageMessage(image_filename) ==
    [role |-> "user", content |-> SystemNote, image_url |-> image_filename]

InsertAt(s, i, e) == SubSeq(s, 1, i - 1) \o <<e>> \o SubSeq(s, i, Len(s))

(* Splice putting the image message at the head whatever the first role is *)
Splice_AtHead(messages, image_message) == <<image_message>> \o messages

(* app.py:396-408 *)
Splice(messages, image_message) ==
    IF Len(messages) > 0
    THEN IF messages[1].role = "system"
         THEN InsertAt(messages, 2, image_message)
         ELSE InsertAt(messages, 1, image_message)
    ELSE Append(messages, image_message)

----------------------------------------------------------------------------
(* The locals of one request.  op names the handler, pc the next statement of
   it (a source line of app.py), status the HTTP status once it has returned.
   received is the message list of the request body, messages the list the
   handler works on, forwarded the list handed to the LLM service; claimed is
   the session the request took from pending_session_id at app.py:295; data
   is the candidate fields of the request body; service is what
   create_llm_service returned at app.py:334 and reply what its
   chat_completion returned; body is how the body of a completion request
   parses and form what the form of an upload holds. *)

IdleReq ==
    [op |-> "idle", pc |-> "done", uid |-> Absent,
     session_id |-> None, image_filename |-> None, messages |-> <<>>,
     ext |-> "ok", status |-> 0, forwarded |-> <<>>, injected |-> None,
     file |-> None, created |-> FALSE, received |-> <<>>, claimed |-> None,
     data |-> EmptyPayload, service |-> "none", reply |-> "none",
     body |-> "none", form |-> "none"]

Shared ==
    [image_context |-> image_context, session_map |-> session_map,
     pending_session_id |-> pending_session_id, uploads |-> uploads]

Return(m, code) == [m EXCEPT !.l.pc = "done", !.l.status = code]
Goto(m, line) == [m EXCEPT !.l.pc = line]

MapSet(sm, k, v) == (k :> v) @@ sm

----------------------------------------------------------------------------
(* chat_completions, app.py:288-491, one statement on the shared tables per
   step.  m.g is the shared state the statement reads and writes, m.l the
   request's locals.  An exception raised by a statement is caught at
   app.py:521 and answered with status 500. *)

(* Link290 without the membership test: every user id is linked as a new one *)
Link290_AlwaysNew(m) ==
    IF Truthy(m.l.uid)
    THEN IF m.l.uid = Unhashable THEN Return(m, 500) ELSE Goto(m, "L293")
    ELSE Goto(m, "L313")

(* app.py:290-291, 310 *)
Link290(m) ==
    IF Truthy(m.l.uid)
    THEN IF m.l.uid = Unhashable
         THEN Return(m, 500)                 \* TypeError: unhashable type
         ELSE IF m.l.uid \notin DOMAIN m.g.session_map
              THEN Goto(m, "L293")
              ELSE Goto(m, "L308")
    ELSE Goto(m, "L313")

(* Link293 trying the single-entry fallback before the pending session *)
Link293_FallbackFirst(m) ==
    IF Len(m.g.image_context) = 1 THEN Goto(m, "L301")
    ELSE IF m.g.pending_session_id # None THEN Goto(m, "L295") ELSE Goto(m, "L301")

(* app.py:293 *)
Link293(m) == IF m.g.pending_session_id # None THEN Goto(m, "L295") ELSE Goto(m, "L301")

(* app.py:295 *)
Link295(m) ==
    Goto([m EXCEPT !.g.session_map = MapSet(@, m.l.uid, m.g.pending_session_id),
                   !.l.claimed = m.g.pending_session_id], "L296")

(* app.py:296 *)
Link296(m) == Goto([m EXCEPT !.l.session_id = m.g.pending_session_id], "L297")

(* app.py:297 *)
Link297(m) == Goto([m EXCEPT !.g.pending_session_id = None], "L320")

(* app.py:301 *)
Link301(m) == IF Len(m.g.image_context) = 1 THEN Goto(m, "L302") ELSE Goto(m, "L320")

(* app.py:302 *)
Link302(m) ==
    IF Len(m.g.image_context) = 0
    THEN Return(m, 500)                      \* IndexError: list index out of range
    ELSE Goto([m EXCEPT !.l.session_id = DictKeys(m.g.image_context)[1]], "L304")

(* Link304 without the write to session_map *)
Link304_NoBind(m) == Goto(m, "L320")

(* app.py:304-305; only_session_id is held in l.session_id *)
Link304(m) ==
    Goto([m EXCEPT !.g.session_map = MapSet(@, m.l.uid, m.l.session_id)], "L320")

(* Link308 finding no session for a user id that is in session_map *)
Link308_Forget(m) == Goto(m, "L320")

(* Link308 taking the pending session, when there is one, instead of the
   session the user id is bound to *)
Link308_PreferPending(m) ==
    Goto([m EXCEPT !.l.session_id =
              IF m.g.pending_session_id # None THEN m.g.pending_session_id
              ELSE m.g.session_map[m.l.uid]],
         "L320")

(* Link308 emptying pending_session_id as the linking of a new id does *)
Link308_Clear(m) ==
    Goto([m EXCEPT !.l.session_id = m.g.session_map[m.l.uid],
                   !.g.pending_session_id = None],
         "L320")

(* app.py:308 *)
Link308(m) ==
    Goto([m EXCEPT !.l.session_id =
              IF m.l.uid \in DOMAIN m.g.session_map THEN m.g.session_map[m.l.uid] ELSE None],
         "L320")

(* Link313 without the test of len(image_context) *)
Link313_AnyPending(m) ==
    IF m.g.pending_session_id # None THEN Goto(m, "L315") ELSE Goto(m, "L320")

(* app.py:313 *)
Link313(m) ==
    IF m.g.pending_session_id # None /\ Len(m.g.image_context) = 1
    THEN Goto(m, "L315")
    ELSE Goto(m, "L320")

(* Link315 taking the session of the only image_context entry *)
Link315_OnlyEntry(m) ==
    Goto([m EXCEPT !.l.session_id = DictKeys(m.g.image_context)[1]], "L320")

(* Link315 taking the pending session out of the slot *)
Link315_Claim(m) ==
    Goto([m EXCEPT !.l.session_id = m.g.pending_session_id,
                   !.g.pending_session_id = None], "L320")

(* app.py:315 *)
Link315(m) == Goto([m EXCEPT !.l.session_id = m.g.pending_session_id], "L320")

(* create_llm_service comparing the name as it was given *)
create_llm_service_CaseSensitive(provider) ==
    IF provider = openai THEN "OpenAIService"
    ELSE IF provider = gemini THEN "GeminiService"
    ELSE "ValueError"

(* llm_factory.py:20-25 *)
create_llm_service(provider) ==
    IF Lower(provider) = openai THEN "OpenAIService"
    ELSE IF Lower(provider) = gemini THEN "GeminiService"
    ELSE "ValueError"

(* Setup320 undoing the linking of the request when the setup fails *)
Setup320_Unlink(m) ==
    LET service == create_llm_service(Lower(llm_provider))
        undone == [m EXCEPT !.g.pending_session_id =
                                IF m.l.claimed # None THEN m.l.claimed ELSE @,
                            !.g.session_map =
                                IF m.l.claimed # None
                                THEN [e \in DOMAIN @ \ {m.l.uid} |-> @[e]] ELSE @]
    IN  IF ~api_key_set THEN Return(undone, 500)
        ELSE IF service = "ValueError" THEN Return(undone, 500)
        ELSE Goto([m EXCEPT !.l.service = service], "L353")

(* app.py:320-343; the provider name is lowered at line 320, the key looked up
   under the name at line 321 *)
Setup320(m) ==
    LET service == create_llm_service(Lower(llm_provider))
    IN  IF ~api_key_set THEN Return(m, 500)
        ELSE IF service = "ValueError" THEN Return(m, 500)
        ELSE Goto([m EXCEPT !.l.service = service], "L353")

(* Fallback353 without the test of len(image_context) *)
Fallback353_Always(m) ==
    IF m.l.session_id = None THEN Goto(m, "L354") ELSE Goto(m, "L363")

(* Fallback353 falling back to the newest image only when nothing is pending *)
Fallback353_OnlyWithoutPending(m) ==
    IF /\ m.l.session_id = None
       /\ Len(m.g.image_context) > 0
       /\ m.g.pending_session_id = None
    THEN Goto(m, "L354")
    ELSE Goto(m, "L363")

(* Fallback353 falling back to the newest image also when the linked session
   has none *)
Fallback353_WhenNoImage(m) ==
    IF /\ m.l.session_id = None \/ ~DictHas(m.g.image_context, m.l.session_id)
       /\ Len(m.g.image_context) > 0
    THEN Goto(m, "L354")
    ELSE Goto(m, "L363")

(* app.py:353 *)
Fallback353(m) ==
    IF m.l.session_id = None /\ Len(m.g.image_context) > 0
    THEN Goto(m, "L354")
    ELSE Goto(m, "L363")

(* Fallback354 taking the first key of image_context instead of the last *)
Fallback354_First(m) ==
    IF Len(m.g.image_context) = 0
    THEN Return(m, 500)
    ELSE Goto([m EXCEPT !.l.session_id = DictKeys(m.g.image_context)[1]], "L359")

(* app.py:354-356 *)
Fallback354(m) ==
    IF Len(m.g.image_context) = 0
    THEN Return(m, 500)                      \* IndexError: list index out of range
    ELSE Goto([m EXCEPT !.l.session_id =
                   DictKeys(m.g.image_context)[Len(m.g.image_context)]], "L359")

(* Fallback359 without the write to session_map *)
Fallback359_NoBind(m) == Goto(m, "L363")

(* app.py:359-360 *)
Fallback359(m) ==
    IF Truthy(m.l.uid)
    THEN Goto([m EXCEPT !.g.session_map = MapSet(@, m.l.uid, m.l.session_id)], "L363")
    ELSE Goto(m, "L363")

(* Inject363 taking the newest image when the session has none *)
Inject363_ElseNewest(m) ==
    IF m.l.session_id # None /\ Len(m.g.image_context) > 0
    THEN LET k == IF DictHas(m.g.image_context, m.l.session_id)
                  THEN m.l.session_id
                  ELSE DictKeys(m.g.image_context)[Len(m.g.image_context)]
             image_filename == DictGet(m.g.image_context, k)
         IN Goto([m EXCEPT !.l.image_filename = image_filename,
                           !.l.messages = Splice(@, ImageMessage(image_filename)),
                           !.l.injected = image_filename], "L412")
    ELSE Goto(m, "L433")

(* Inject363 taking the image without a splice into the messages *)
Inject363_NoSplice(m) ==
    IF m.l.session_id # None /\ DictGet(m.g.image_context, m.l.session_id) # None
    THEN Goto([m EXCEPT !.l.image_filename = DictGet(m.g.image_context, m.l.session_id)],
              "L412")
    ELSE Goto(m, "L433")

(* app.py:363-408: the lookup of the image and, when there is one, the splice
   into the request's own message list *)
Inject363(m) ==
    IF m.l.session_id # None /\ DictGet(m.g.image_context, m.l.session_id) # None
    THEN LET image_filename == DictGet(m.g.image_context, m.l.session_id)
         IN Goto([m EXCEPT !.l.image_filename = image_filename,
                           !.l.messages = Splice(@, ImageMessage(image_filename)),
                           !.l.injected = image_filename], "L412")
    ELSE Goto(m, "L433")

(* Inject412 without the pop: the image stays in image_context *)
Inject412_NoPop(m) == Goto(m, "L433")

(* app.py:412 *)
Inject412(m) ==
    Goto([m EXCEPT !.g.image_context = DictPop(@, m.l.session_id)], "L433")

(* What chat_completion hands back without stream.  openai_service.py:99-106
   returns the ChatCompletion object of the client and, when the call has
   raised, a dict with an error (openai_service.py:127-141);
   gemini_service.py:63-75 returns the dict _format_gemini_response builds
   (gemini_service.py:281-302) and lets a failing call raise. *)
chat_completion(service, ext) ==
    IF service = "OpenAIService"
    THEN IF ext = "ok" THEN "ChatCompletion" ELSE "dict"
    ELSE IF ext = "ok" THEN "dict" ELSE "raise"

(* app.py:478, llm_response.model_dump(): a method of ChatCompletion; a dict
   has none, the call raises AttributeError *)
has_model_dump(reply) == reply = "ChatCompletion"

(* Dispatch433 putting the image back when the call of the LLM service fails *)
Dispatch433_Restore(m) ==
    LET reply == chat_completion(m.l.service, m.l.ext)
    IN  Return([m EXCEPT !.l.forwarded = m.l.messages,
                         !.l.reply = reply,
                         !.g.image_context =
                             IF m.l.ext # "ok" /\ m.l.injected # None
                             THEN DictSet(@, m.l.session_id, m.l.injected) ELSE @],
               IF has_model_dump(reply) THEN 200 ELSE 500)

(* app.py:433-491: the messages go to the LLM service, l.ext is whether its
   call of the backend succeeds; the reply is serialised at line 478 and an
   exception of the call or of the serialisation is answered 500 at lines
   480-491 *)
Dispatch433(m) ==
    LET reply == chat_completion(m.l.service, m.l.ext)
    IN  Return([m EXCEPT !.l.forwarded = m.l.messages, !.l.reply = reply],
               IF has_model_dump(reply) THEN 200 ELSE 500)

CompletionStep(m) ==
    CASE m.l.pc = "L290" -> Link290(m)
      [] m.l.pc = "L293" -> Link293(m)
      [] m.l.pc = "L295" -> Link295(m)
      [] m.l.pc = "L296" -> Link296(m)
      [] m.l.pc = "L297" -> Link297(m)
      [] m.l.pc = "L301" -> Link301(m)
      [] m.l.pc = "L302" -> Link302(m)
      [] m.l.pc = "L304" -> Link304(m)
      [] m.l.pc = "L308" -> Link308(m)
      [] m.l.pc = "L313" -> Link313(m)
      [] m.l.pc = "L315" -> Link315(m)
      [] m.l.pc = "L320" -> Setup320(m)
      [] m.l.pc = "L353" -> Fallback353(m)
      [] m.l.pc = "L354" -> Fallback354(m)
      [] m.l.pc = "L359" -> Fallback359(m)
      [] m.l.pc = "L363" -> Inject363(m)
      [] m.l.pc = "L412" -> Inject412(m)
      [] m.l.pc = "L433" -> Dispatch433(m)

(* CompletionBegin without the test of the list being empty *)
CompletionBegin_AllowEmpty(body, data, messages, ext) ==
    IF body # "json"
    THEN [IdleReq EXCEPT !.op = "completion", !.body = body, !.status = 400]
    ELSE [IdleReq EXCEPT !.op = "completion", !.body = body, !.pc = "L290",
                         !.uid = ExtractUserId(data), !.data = data,
                         !.received = messages,
                         !.messages = messages, !.ext = ext]

(* app.py:226-281: validation of the body and extraction of the user id; these
   read no shared state.  body is how the request body parses. *)
CompletionBegin(body, data, messages, ext) ==
    IF body # "json"
    THEN [IdleReq EXCEPT !.op = "completion", !.body = body, !.status = 400]
    ELSE IF Len(messages) = 0                      \* app.py:257, not messages
    THEN [IdleReq EXCEPT !.op = "completion", !.body = body,
                         !.received = messages, !.status = 400]
    ELSE [IdleReq EXCEPT !.op = "completion", !.body = body, !.pc = "L290",
                         !.uid = ExtractUserId(data), !.data = data,
                         !.received = messages,
                         !.messages = messages, !.ext = ext]

----------------------------------------------------------------------------
(* upload_image_get_url, app.py:546-589 *)

(* app.py:547-567: validation of the form, then the unique filename *)
UploadBegin(form, session_id, ext, unique_filename) ==
    IF form # "ok"
    THEN [IdleReq EXCEPT !.op = "upload", !.form = form, !.status = 400]
    ELSE [IdleReq EXCEPT !.op = "upload", !.form = form, !.pc = "L570",
                         !.session_id = session_id,
                         !.file = unique_filename, !.ext = ext]

(* Upload570 going on to record the filename when the save has failed *)
Upload570_RecordAnyway(m) ==
    IF m.l.ext = "ok"
    THEN Goto([m EXCEPT !.g.uploads = @ \cup {m.l.file}], "L573")
    ELSE Goto(m, "L573")

(* app.py:570; a failed save raises, caught at app.py:587 *)
Upload570(m) ==
    IF m.l.ext = "ok"
    THEN Goto([m EXCEPT !.g.uploads = @ \cup {m.l.file}], "L573")
    ELSE Return(m, 500)

(* Upload573 adding an entry whether or not the session has one *)
Upload573_Append(m) ==
    Return([m EXCEPT !.g.image_context = Append(@, <<m.l.session_id, m.l.file>>),
                     !.l.created = TRUE], 200)

(* Upload573 making the session of the upload the pending one *)
Upload573_MakePending(m) ==
    Return([m EXCEPT !.g.image_context = DictSet(@, m.l.session_id, m.l.file),
                     !.g.pending_session_id = m.l.session_id,
                     !.l.created = ~DictHas(m.g.image_context, m.l.session_id)], 200)

(* app.py:573-586; l.created records whether the assignment added a key to the
   dict or replaced the value of one *)
Upload573(m) ==
    Return([m EXCEPT !.g.image_context = DictSet(@, m.l.session_id, m.l.file),
                     !.l.created = ~DictHas(m.g.image_context, m.l.session_id)], 200)

UploadStep(m) ==
    CASE m.l.pc = "L570" -> Upload570(m)
      [] m.l.pc = "L573" -> Upload573(m)

----------------------------------------------------------------------------
(* get_elevenlabs_signed_url, app.py:620-674 *)

(* app.py:622-630; ext is what the environment and the voice platform do *)
IssueBegin(ext, fresh) ==
    IF ext = "no_api_key"
    THEN [IdleReq EXCEPT !.op = "issue", !.ext = ext, !.status = 500]
    ELSE [IdleReq EXCEPT !.op = "issue", !.pc = "L639", !.ext = ext, !.session_id = fresh]

(* Issue639 with the session drawn and stored before the voice platform is
   asked *)
Issue639_MintFirst(m) ==
    IF m.l.ext = "http_error"
    THEN Return([m EXCEPT !.g.pending_session_id = m.l.session_id], 502)
    ELSE IF m.l.ext = "no_url"
    THEN Return([m EXCEPT !.g.pending_session_id = m.l.session_id], 500)
    ELSE Goto(m, "L659")

(* app.py:639-656, 669-671 *)
Issue639(m) ==
    IF m.l.ext = "http_error" THEN Return([m EXCEPT !.l.session_id = None], 502)
    ELSE IF m.l.ext = "no_url" THEN Return([m EXCEPT !.l.session_id = None], 500)
    ELSE Goto(m, "L659")

(* Issue659 keeping a session that is still pending *)
Issue659_KeepUnclaimed(m) ==
    Return([m EXCEPT !.g.pending_session_id =
                IF @ # None THEN @ ELSE m.l.session_id], 200)

(* app.py:659-667; l.session_id is the uuid4 drawn at line 659 *)
Issue659(m) ==
    Return([m EXCEPT !.g.pending_session_id = m.l.session_id], 200)

IssueStep(m) ==
    CASE m.l.pc = "L639" -> Issue639(m)
      [] m.l.pc = "L659" -> Issue659(m)

----------------------------------------------------------------------------
(* Running the handlers *)

HandlerStep(m) ==
    CASE m.l.op = "completion" -> CompletionStep(m)
      [] m.l.op = "upload" -> UploadStep(m)
      [] m.l.op = "issue" -> IssueStep(m)

(* a handler from its first statement to its return, nothing in between *)
RECURSIVE Run(_)
Run(m) == IF m.l.pc = "done" THEN m ELSE Run(HandlerStep(m))

(* the filenames a table or a request's locals hold *)
LiveFiles(d, rq) ==
    {d[i][2] : i \in 1..Len(d)}
    \cup UNION {{rq[t].file, rq[t].injected, rq[t].image_filename} : t \in Threads}

(* thread t's handler has gone from the shared state and locals it found to m;
   tg is tagged with the uploads begun in this step *)
Install(m, t, tg) ==
    /\ tagged' = [f \in Files |->
                    IF f \in LiveFiles(m.g.image_context, [req EXCEPT ![t] = m.l])
                    THEN tg[f] ELSE None]
    /\ image_context' = m.g.image_context
    /\ session_map' = m.g.session_map
    /\ pending_session_id' = m.g.pending_session_id
    /\ uploads' = m.g.uploads
    /\ req' = [req EXCEPT ![t] = m.l]
    /\ UNCHANGED <<llm_provider, api_key_set, factory>>

(* create_llm_service has not been called from outside the handler *)
NoCall == [provider |-> <<>>, service |-> "none"]

Init ==
    /\ image_context = <<>>
    /\ session_map = <<>>
    /\ pending_session_id = None
    /\ uploads = {}
    /\ llm_provider = openai            \* app.py:320, the default provider
    /\ api_key_set = TRUE
    /\ next_session = 0
    /\ next_file = 0
    /\ req = [t \in Threads |-> IdleReq]
    /\ tagged = [f \in Files |-> None]
    /\ tick = 0
    /\ factory = NoCall

IssueOutcomes == {"ok", "no_api_key", "http_error", "no_url"}
UploadForms == {"ok", "no_image", "empty_filename", "no_session_id"}
Bodies == {"json", "not_json", "empty_body", "messages_not_list"}
Outcomes == {"ok", "fail"}

(* the session_id form values a client can send: an id some issue call
   returned, or one of its own making *)
KnownSessions == (1..next_session) \cup {ForeignSession}

(* GET /api/elevenlabs/get-signed-url served from request to response *)
IssueCredential(ext) ==
    /\ tick' = 1 - tick
    /\ ext = "ok" => next_session < MaxSessions
    /\ next_session' = IF ext = "ok" THEN next_session + 1 ELSE next_session
    /\ UNCHANGED next_file
    /\ Install(Run([g |-> Shared, l |-> IssueBegin(ext, next_session + 1)]), MainThread,
               tagged)

(* an upload whose file reaches UPLOAD_FOLDER; only these use up one of the
   MaxFiles filenames of the model *)
Stored(form, ext) == form = "ok" /\ ext = "ok"

(* POST /upload_image_get_url served from request to response *)
Upload(form, session_id, ext) ==
    /\ tick' = 1 - tick
    /\ next_file' = IF Stored(form, ext) THEN next_file + 1 ELSE next_file
    /\ UNCHANGED next_session
    /\ Install(Run([g |-> Shared, l |-> UploadBegin(form, session_id, ext, next_file + 1)]),
               MainThread,
               IF Stored(form, ext)
               THEN [tagged EXCEPT ![next_file + 1] = session_id]
               ELSE tagged)

UploadImage(form, session_id, ext) ==
    /\ Stored(form, ext) => next_file < MaxFiles
    /\ Upload(form, session_id, ext)

(* POST /v1/chat/completions served from request to response *)
ChatCompletions(body, data, messages, ext) ==
    /\ tick' = 1 - tick
    /\ UNCHANGED <<next_session, next_file>>
    /\ Install(Run([g |-> Shared, l |-> CompletionBegin(body, data, messages, ext)]),
               MainThread, tagged)

(* Spec: a configured deployment serving well-formed requests one after the
   other, the voice platform, the upload folder and the LLM service answering *)
Next ==
    \/ IssueCredential("ok")
    \/ \E session_id \in KnownSessions : UploadImage("ok", session_id, "ok")
    \/ \E data \in RequestPayloads, messages \in MessageLists :
          ChatCompletions("json", data, messages, "ok")

Spec == Init /\ [][Next]_vars

----------------------------------------------------------------------------
(* SpecThreads: the same handlers on Flask's threaded server (app.py:962).  The
   source takes no lock, so a thread runs one statement on the shared tables at
   a time and the statements of the requests in flight interleave. *)

Free(t) == req[t].pc = "done"

(* the requests in flight are well-formed ones of up to ThreadSessions sessions
   and ThreadFiles uploads, each completion carrying the same one-message list *)
ThreadMessages == <<Message("user", 1)>>

BeginIssue(t) ==
    /\ Free(t)
    /\ next_session < ThreadSessions
    /\ next_session' = next_session + 1
    /\ UNCHANGED <<next_file, tick>>
    /\ Install([g |-> Shared, l |-> IssueBegin("ok", next_session + 1)], t, tagged)

BeginUpload(t, session_id) ==
    /\ Free(t)
    /\ next_file < ThreadFiles
    /\ next_file' = next_file + 1
    /\ UNCHANGED <<next_session, tick>>
    /\ Install([g |-> Shared, l |-> UploadBegin("ok", session_id, "ok", next_file + 1)], t,
               [tagged EXCEPT ![next_file + 1] = session_id])

BeginCompletion(t, data, messages) ==
    /\ Free(t)
    /\ UNCHANGED <<next_session, next_file, tick>>
    /\ Install([g |-> Shared, l |-> CompletionBegin("json", data, messages, "ok")], t,
               tagged)

ThreadStep(t) ==
    /\ ~Free(t)
    /\ UNCHANGED <<next_session, next_file, tick>>
    /\ Install(HandlerStep([g |-> Shared, l |-> req[t]]), t, tagged)

NextThreads ==
    \E t \in Threads :
        \/ BeginIssue(t)
        \/ \E session_id \in 1..next_session : BeginUpload(t, session_id)
        \/ \E data \in RequestPayloads : BeginCompletion(t, data, ThreadMessages)
        \/ ThreadStep(t)

SpecThreads == Init /\ [][NextThreads]_vars

----------------------------------------------------------------------------
(* SpecNoId: the voice platform sends no user id, the case the fallback chain
   is there for: sessions are issued, up to NoIdFiles files are uploaded and
   every completion request arrives without a user id. *)

NoIdUpload(session_id) ==
    /\ next_file < NoIdFiles
    /\ Upload("ok", session_id, "ok")

NoIdCompletion(messages) ==
    ChatCompletions("json", OnlyField("user_id", Absent), messages, "ok")

NextNoId ==
    \/ IssueCredential("ok")
    \/ \E session_id \in KnownSessions : NoIdUpload(session_id)
    \/ \E messages \in MessageLists : NoIdCompletion(messages)

SpecNoId == Init /\ [][NextNoId]_vars

----------------------------------------------------------------------------
(* SpecSplice: one conversation whose completion requests carry message lists
   of every length up to MaxSpliceMsgs, the empty list included, with every
   combination of roles. *)

MaxSpliceMsgs == 3

SpliceLists ==
    UNION {{[i \in 1..n |-> Message(roles[i], i)] : roles \in [1..n -> Roles]} :
              n \in 0..MaxSpliceMsgs}

SpliceIssue ==
    /\ next_session = 0
    /\ IssueCredential("ok")

SpliceUpload ==
    /\ next_session = 1
    /\ UploadImage("ok", 1, "ok")

SpliceCompletion(data, messages) == ChatCompletions("json", data, messages, "ok")

NextSplice ==
    \/ SpliceIssue
    \/ SpliceUpload
    \/ \E v \in {"E1", Absent}, messages \in SpliceLists :
          SpliceCompletion(OnlyField("user_id", v), messages)

SpecSplice == Init /\ [][NextSplice]_vars

----------------------------------------------------------------------------
(* SpecIds: otherwise valid completion requests whose identifier fields take
   every kind of value: one of the candidate fields holds an id, the empty
   string or a non-empty JSON object or array, or none of them is present. *)

IdPayloads == {OnlyField(f, v) : f \in FieldNames, v \in FieldValues}

IdsUpload(session_id) == UploadImage("ok", session_id, "ok")

IdsCompletion(data, messages) == ChatCompletions("json", data, messages, "ok")

NextIds ==
    \/ IssueCredential("ok")
    \/ \E session_id \in 1..next_session : IdsUpload(session_id)
    \/ \E data \in IdPayloads, messages \in MessageLists : IdsCompletion(data, messages)

SpecIds == Init /\ [][NextIds]_vars

----------------------------------------------------------------------------
(* SpecErr: requests served one after the other, as under Spec, with the
   failures the handlers provide for: the voice platform refusing the
   credential, malformed upload forms and request bodies, a failing save to
   UPLOAD_FOLDER and a failing call of the LLM service. *)

ErrLists == MessageLists \cup {<<>>}

ErrIssue(ext) == IssueCredential(ext)

ErrUpload(form, session_id, ext) == UploadImage(form, session_id, ext)

ErrCompletion(body, data, messages, ext) == ChatCompletions(body, data, messages, ext)

NextErr ==
    \/ \E ext \in IssueOutcomes : ErrIssue(ext)
    \/ \E form \in UploadForms, session_id \in 1..next_session, ext \in Outcomes :
          ErrUpload(form, session_id, ext)
    \/ \E body \in Bodies, v \in {"E1", Absent}, messages \in ErrLists, ext \in Outcomes :
          ErrCompletion(body, OnlyField("user_id", v), messages, ext)

SpecErr == Init /\ [][NextErr]_vars

----------------------------------------------------------------------------
(* SpecProbe: completion requests whose bodies have up to two of the candidate
   fields, each holding an id, the empty string or a non-empty object, in
   every combination, all with the same one-message list; a session may be
   pending. *)

ProbePayloads ==
    {[x \in FieldNames |-> IF x = f1 THEN v1 ELSE IF x = f2 THEN v2 ELSE Absent] :
        f1 \in FieldNames, f2 \in FieldNames, v1 \in FieldValues, v2 \in FieldValues}

ProbeIssue ==
    /\ next_session = 0
    /\ IssueCredential("ok")

ProbeCompletion(data) == ChatCompletions("json", data, <<Message("user", 1)>>, "ok")

NextProbe ==
    \/ ProbeIssue
    \/ \E data \in ProbePayloads : ProbeCompletion(data)

SpecProbe == Init /\ [][NextProbe]_vars

----------------------------------------------------------------------------
(* SpecConv: two conversations, each with one issue call, uploads tagged with
   the session id that call returned and completion requests carrying its own
   user id, in any order after its issue call.  Conversation c is the one
   whose issue call returned session c; its user id is ConvUserId(c). *)

Convs == {1, 2}
ConvUserId(c) == IF c = 1 THEN "E1" ELSE "E2"

ConvIssue ==
    /\ next_session < Cardinality(Convs)
    /\ IssueCredential("ok")

ConvUpload(c) ==
    /\ c <= next_session
    /\ UploadImage("ok", c, "ok")

ConvCompletion(c, messages) ==
    /\ c <= next_session
    /\ ChatCompletions("json", OnlyField("user_id", ConvUserId(c)), messages, "ok")

NextConv ==
    \/ ConvIssue
    \/ \E c \in Convs : ConvUpload(c)
    \/ \E c \in Convs, messages \in MessageLists : ConvCompletion(c, messages)

SpecConv == Init /\ [][NextConv]_vars

----------------------------------------------------------------------------
(* SpecConfig: the deployment under every configuration of the model: the
   provider named in any spelling, supported or not, its API key set or not.
   One session is issued; uploads and completion requests with a user id or
   none follow, served one after the other, the backend answering or failing.
   create_llm_service is also called on its own with any provider name. *)

InitConfig ==
    /\ image_context = <<>>
    /\ session_map = <<>>
    /\ pending_session_id = None
    /\ uploads = {}
    /\ llm_provider \in ProviderNames
    /\ api_key_set \in BOOLEAN
    /\ next_session = 0
    /\ next_file = 0
    /\ req = [t \in Threads |-> IdleReq]
    /\ tagged = [f \in Files |-> None]
    /\ tick = 0
    /\ factory = NoCall

ConfigIssue ==
    /\ next_session = 0
    /\ IssueCredential("ok")

ConfigUpload == \E session_id \in 1..next_session : UploadImage("ok", session_id, "ok")

ConfigCompletion(v, ext) ==
    ChatCompletions("json", OnlyField("user_id", v), <<Message("user", 1)>>, ext)

(* llm_factory.py:6-25, called with any provider name *)
ConfigFactory(provider) ==
    /\ factory' = [provider |-> provider, service |-> create_llm_service(provider)]
    /\ UNCHANGED <<image_context, session_map, pending_session_id, uploads,
                   llm_provider, api_key_set, next_session, next_file, req, tagged,
                   tick>>

NextConfig ==
    \/ ConfigIssue
    \/ ConfigUpload
    \/ \E v \in UserIds \cup {Absent}, ext \in Outcomes : ConfigCompletion(v, ext)
    \/ \E provider \in ProviderNames : ConfigFactory(provider)

SpecConfig == InitConfig /\ [][NextConfig]_vars

----------------------------------------------------------------------------
(* What the claims below speak of.  Under Spec every step is one request served
   from beginning to end: Last' is that request's record, the unprimed
   variables are the tables it found and the primed ones the tables it left. *)

Last == req[MainThread]

Bound(e) == e \in DOMAIN session_map
Completed(e) == Last'.op = "completion" /\ Last'.uid = e
ImageMessagesOf(messages) == {i \in 1..Len(messages) : messages[i].image_url # None}
InjectsNothing == Last'.injected = None /\ ImageMessagesOf(Last'.forwarded) = {}

(* C1, first half: a completion request carrying an unbound user id e while
   pending_session_id = T and image_context[T] = img forwards a message list
   with exactly one image message, which references img, and leaves e bound to
   T with no image_context entry for T. *)
C1_InjectsOnce ==
    \A e \in UserIds :
        (/\ pending_session_id # None
         /\ ~Bound(e)
         /\ DictHas(image_context, pending_session_id)
         /\ Completed(e))
        => /\ Last'.status = 200
           /\ Cardinality(ImageMessagesOf(Last'.forwarded)) = 1
           /\ \A i \in ImageMessagesOf(Last'.forwarded) :
                 Last'.forwarded[i].image_url = DictGet(image_context, pending_session_id)
           /\ Bound(e)' /\ session_map'[e] = pending_session_id
           /\ ~DictHas(image_context', pending_session_id)

(* C1, second half: while e stays bound to a session T that has no
   image_context entry, every request other than an upload leaves it so, and a
   completion request carrying e forwards its messages with no image message. *)
C1_ThenNothing ==
    \A e \in UserIds :
        (/\ Bound(e)
         /\ ~DictHas(image_context, session_map[e])
         /\ Last'.op # "upload")
        => /\ Bound(e)' /\ session_map'[e] = session_map[e]
           /\ ~DictHas(image_context', session_map[e])
           /\ Completed(e) => (Last'.status = 200 /\ InjectsNothing)

(* C1: upload-before-complete is one-shot: the first completion request
   carrying the unbound id e while PendingSession = T injects exactly the
   image uploaded for T, and until the next upload every further completion
   request carrying e injects nothing. *)
C1_UploadBeforeCompleteOneShot == [][C1_InjectsOnce /\ C1_ThenNothing]_vars

(* C1 witness: one session was issued and one file uploaded, E1 is bound to
   the session, the file has been consumed and the last request, a completion
   carrying E1, was forwarded without an image message. *)
C1_Witness ==
    /\ next_session = 1 /\ next_file = 1 /\ image_context = <<>>
    /\ pending_session_id = None
    /\ DOMAIN session_map = {"E1"} /\ session_map["E1"] = 1
    /\ Last.op = "completion" /\ Last.uid = "E1" /\ Last.status = 200
    /\ Last.injected = None /\ ImageMessagesOf(Last.forwarded) = {}

(* C2: first relevant turn: an upload for session T that directly follows the
   issue call that returned T adds a new image_context entry; and when T is
   the pending session and the last request was the upload that added T's
   entry with file img, a completion request whose user id is absent or not
   yet bound injects img, whatever else image_context and session_map hold. *)
C2_FirstRelevantTurn ==
    [][/\ (/\ Last.op = "issue" /\ Last.status = 200
           /\ Last'.op = "upload" /\ Last'.status = 200
           /\ Last'.session_id = Last.session_id)
          => (Last'.created /\ pending_session_id' = Last.session_id)
       /\ \A u \in UserIds \cup {Absent} :
            (/\ Last.op = "upload" /\ Last.status = 200 /\ Last.created
             /\ pending_session_id # None
             /\ Last.session_id = pending_session_id
             /\ ~Bound(u)
             /\ Completed(u))
            => /\ Last'.status = 200
               /\ Last'.injected = Last.file
               /\ \E i \in 1..Len(Last'.forwarded) :
                     Last'.forwarded[i] = ImageMessage(Last.file)]_vars

(* C2 witness: a completion request without a user id has just injected the
   file uploaded for the pending session while image_context held an entry of
   another session, which it still holds, and session_map a binding. *)
C2_Witness ==
    /\ Last.op = "completion" /\ Last.uid = Absent /\ Last.injected # None
    /\ pending_session_id # None
    /\ tagged[Last.injected] = pending_session_id
    /\ Len(image_context) >= 1
    /\ session_map # <<>>

(* C3: bind-once: a user id bound in session_map stays bound to the same
   session over every request, and a completion request carrying it resolves
   to that session. *)
C3_BindOnce ==
    [][\A e \in UserIds :
          Bound(e) => /\ Bound(e)'
                      /\ session_map'[e] = session_map[e]
                      /\ Completed(e) => Last'.session_id = session_map[e]]_vars

(* C3 witness: E1 is bound to session 1; since then session 2 was issued and is
   pending, a file was uploaded for it, E2 was bound, and a completion request
   carrying E1 has just resolved to session 1. *)
C3_Witness ==
    /\ Bound("E1") /\ session_map["E1"] = 1
    /\ Bound("E2")
    /\ pending_session_id = 2
    /\ DictHas(image_context, 2)
    /\ Last.op = "completion" /\ Last.uid = "E1" /\ Last.session_id = 1

(* C4: at-most-once injection under concurrency: no two requests have the same
   file spliced into their messages. *)
C4_AtMostOnceInjection ==
    \A t1, t2 \in Threads :
        (t1 # t2 /\ req[t1].injected # None) => req[t1].injected # req[t2].injected

(* C5 as claimed: right image, right conversation: a completion request
   carrying conversation c's user id never has an image injected that was
   uploaded under the other conversation's session. *)
C5_RightImageRightConversation ==
    [][\A c \in Convs :
          (Completed(ConvUserId(c)) /\ Last'.injected # None)
          => tagged[Last'.injected] = c]_vars

(* C5 as amended: a completion request carrying conversation c's user id that
   finds the id bound to c's session, or finds it unbound while c's session is
   the pending one, leaves the id bound to c's session and injects only an
   image uploaded under c's session. *)
C5_RightImageOnceBound ==
    [][\A c \in Convs :
          (/\ Completed(ConvUserId(c))
           /\ \/ Bound(ConvUserId(c)) /\ session_map[ConvUserId(c)] = c
              \/ ~Bound(ConvUserId(c)) /\ pending_session_id = c)
          => /\ Bound(ConvUserId(c))' /\ session_map'[ConvUserId(c)] = c
             /\ Last'.injected # None => tagged[Last'.injected] = c]_vars

(* C5 witness: a request of conversation 2, whose id is bound to session 2,
   has just got an image uploaded under session 2 while an image of
   conversation 1 waits in image_context. *)
C5_Witness ==
    /\ Bound("E2") /\ session_map["E2"] = 2
    /\ Bound("E1") /\ session_map["E1"] = 1
    /\ DictHas(image_context, 1)
    /\ Last.op = "completion" /\ Last.uid = "E2" /\ Last.injected # None
    /\ tagged[Last.injected] = 2

(* C6: resolution step 2, pending branch: a completion request carrying an
   unbound user id e while pending_session_id = P resolves to P, records
   e -> P in session_map and empties pending_session_id, whatever
   image_context holds. *)
C6_PendingBranch ==
    [][\A e \in UserIds :
          (~Bound(e) /\ pending_session_id # None /\ Completed(e))
          => /\ Last'.session_id = pending_session_id
             /\ Bound(e)' /\ session_map'[e] = pending_session_id
             /\ pending_session_id' = None]_vars

(* C6 witness: E1, the only bound id, was linked to session 1, the only one
   issued and no longer pending, by a request that injected nothing while
   image_context holds exactly one entry, under another session. *)
C6_Witness ==
    /\ next_session = 1 /\ pending_session_id = None
    /\ DOMAIN session_map = {"E1"} /\ session_map["E1"] = 1
    /\ Len(image_context) = 1 /\ DictKeys(image_context)[1] # 1
    /\ next_file = 1
    /\ Last.op = "completion" /\ Last.uid = "E1" /\ Last.session_id = 1
    /\ Last.injected = None

(* C7: fallback precedence: with pending_session_id empty, e unbound and
   image_context holding exactly one entry T -> img, a completion request
   carrying e resolves to T and records e -> T in session_map. *)
C7_SingleEntryFallback ==
    [][\A e \in UserIds :
          (/\ ~Bound(e) /\ pending_session_id = None
           /\ Len(image_context) = 1
           /\ Completed(e))
          => /\ Last'.session_id = image_context[1][1]
             /\ Bound(e)' /\ session_map'[e] = image_context[1][1]]_vars

(* C7 witness: no session was ever issued, yet E1 is bound to the session of
   the one uploaded file, which the request carrying E1 got injected. *)
C7_Witness ==
    /\ next_session = 0 /\ next_file = 1
    /\ DOMAIN session_map = {"E1"} /\ session_map["E1"] = tagged[1]
    /\ Last.op = "completion" /\ Last.uid = "E1" /\ Last.injected = 1

(* C8: resolution step 3: a completion request without a user id, arriving
   while pending_session_id = P and image_context holds exactly one entry,
   resolves to P. *)
C8_NoIdPendingSingleEntry ==
    [][(/\ pending_session_id # None
        /\ Len(image_context) = 1
        /\ Completed(Absent))
       => Last'.session_id = pending_session_id]_vars

(* C8 witness: a request without a user id resolved to the pending session
   while the only image_context entry belongs to another session. *)
C8_Witness ==
    /\ Last.op = "completion" /\ Last.uid = Absent
    /\ pending_session_id # None /\ Last.session_id = pending_session_id
    /\ Len(image_context) = 1 /\ DictKeys(image_context)[1] # pending_session_id
    /\ next_file = 1

(* the session of the image_context entry written by the latest upload: file
   names are minted in upload order *)
LatestUploaded(d) ==
    d[CHOOSE i \in 1..Len(d) : \A j \in 1..Len(d) : d[j][2] <= d[i][2]][1]

(* steps 1-3 of the resolution find no session for user id u *)
Steps123ResolveNothing(u) ==
    IF Truthy(u)
    THEN ~Bound(u) /\ pending_session_id = None /\ Len(image_context) # 1
    ELSE ~(pending_session_id # None /\ Len(image_context) = 1)

(* C9: resolution step 4: when steps 1-3 resolve no session and image_context
   is not empty, the request resolves to the session whose entry the latest
   upload wrote. *)
C9_NewestUpload ==
    [][\A u \in UserIds \cup {Absent} :
          (/\ Steps123ResolveNothing(u)
           /\ Len(image_context) > 0
           /\ Completed(u))
          => Last'.session_id = LatestUploaded(image_context)]_vars

(* C10 as claimed: some image over none: a completion request without a user
   id that arrives while image_context is not empty has an image injected. *)
C10_SomeImageOverNone ==
    [][(Len(image_context) > 0 /\ Completed(Absent))
       => (Last'.injected # None /\ ImageMessagesOf(Last'.forwarded) # {})]_vars

(* a session is pending and the only image_context entry is another session's *)
PendingWithoutTheOnlyImage ==
    /\ pending_session_id # None
    /\ Len(image_context) = 1
    /\ image_context[1][1] # pending_session_id

(* C10 as amended: a completion request without a user id that arrives while
   image_context is not empty has an image injected, except when a session is
   pending and image_context holds exactly one entry, under another session:
   the request then resolves to the pending session and is forwarded without
   an image. *)
C10_SomeImageUnlessPendingOther ==
    [][(Len(image_context) > 0 /\ Completed(Absent))
       => IF PendingWithoutTheOnlyImage
          THEN InjectsNothing /\ Last'.session_id = pending_session_id
          ELSE Last'.injected # None /\ ImageMessagesOf(Last'.forwarded) # {}]_vars

(* C10 witness: a request without a user id got the newest image, uploaded
   under another session than the pending one, and an older image remains. *)
C10_Witness ==
    /\ Last.op = "completion" /\ Last.uid = Absent /\ Last.injected # None
    /\ pending_session_id # None
    /\ tagged[Last.injected] # pending_session_id
    /\ Len(image_context) = 1

(* C11: with a session pending and image_context empty, a completion request
   without a user id resolves to no session, injects nothing and forwards the
   messages as received. *)
C11_FreshTokenNoImage ==
    [][(/\ pending_session_id # None
        /\ Len(image_context) = 0
        /\ Completed(Absent))
       => /\ Last'.session_id = None
          /\ InjectsNothing
          /\ Last'.status = 200
          /\ Last'.forwarded = Last'.received]_vars

(* C11 witness: session 1 was just issued, nothing was ever uploaded, and a
   request without a user id went through with no session. *)
C11_Witness ==
    /\ next_session = 1 /\ pending_session_id = 1
    /\ next_file = 0 /\ image_context = <<>>
    /\ Last.op = "completion" /\ Last.uid = Absent /\ Last.status = 200
    /\ Last.session_id = None /\ Last.forwarded = Last.received

(* the values image_context holds *)
DictValues(d) == {d[i][2] : i \in 1..Len(d)}

KeysDistinct(d) == \A i, j \in 1..Len(d) : d[i][1] = d[j][1] => i = j

(* C12: last-write-wins: image_context never holds two entries for one
   session; an upload for a session that has an entry replaces the file of
   that entry by a file image_context did not hold, keeps every other entry
   and leaves the replaced file in no entry; and a completion request injects
   only a file that image_context holds, so a replaced file is never injected. *)
C12_LastWriteWins ==
    [][/\ KeysDistinct(image_context) /\ KeysDistinct(image_context')
       /\ (Last'.op = "upload" /\ Last'.status = 200
           /\ DictHas(image_context, Last'.session_id))
          => /\ DictGet(image_context', Last'.session_id) = Last'.file
             /\ Last'.file \notin DictValues(image_context)
             /\ DictGet(image_context, Last'.session_id) \notin DictValues(image_context')
             /\ DictKeys(image_context') = DictKeys(image_context)
             /\ \A k \in Sessions \cup {ForeignSession} :
                   k # Last'.session_id
                   => DictGet(image_context', k) = DictGet(image_context, k)
       /\ (Last'.op = "completion" /\ Last'.injected # None)
          => Last'.injected \in DictValues(image_context)
       /\ Last'.op # "upload" => DictValues(image_context') \subseteq DictValues(image_context)]_vars

(* C12 witness: the second of two uploads has just replaced the file of the
   session's entry: both files are stored and image_context holds the second
   only. *)
C12_Witness ==
    /\ Last.op = "upload" /\ Last.status = 200 /\ ~Last.created
    /\ uploads = {1, 2}
    /\ image_context = <<<<Last.session_id, 2>>>>

(* C13: issue overwrites: right after two successful issue calls in a row
   pending_session_id is the session the second call returned, not the
   first's; pending_session_id is never a session other than the last one
   issued, so a completion request carrying an unbound user id while a session
   is pending is bound to the last one issued. *)
C13_IssueOverwrites ==
    [][/\ (/\ Last.op = "issue" /\ Last.status = 200
           /\ Last'.op = "issue" /\ Last'.status = 200)
          => /\ pending_session_id' = Last'.session_id
             /\ pending_session_id' # Last.session_id
       /\ pending_session_id' \in {None, next_session'}
       /\ \A e \in UserIds :
             (~Bound(e) /\ pending_session_id # None /\ Completed(e))
             => (Bound(e)' /\ session_map'[e] = next_session)]_vars

(* C13 witness: two sessions were issued in a row, nothing was uploaded, and
   the first id to arrive is bound to the second session; no id is bound to
   the first. *)
C13_Witness ==
    /\ next_session = 2 /\ next_file = 0
    /\ DOMAIN session_map = {"E1"} /\ session_map["E1"] = 2
    /\ pending_session_id = None
    /\ Last.op = "completion" /\ Last.uid = "E1" /\ Last.claimed = 2

(* C14: entry lifetime: a session's image_context entry goes away only in a
   completion request that has the entry's file spliced into the messages it
   forwards; a completion request that injects nothing and an issue call leave
   image_context as it is, and an upload removes no session's entry. *)
C14_EntryLifetime ==
    [][/\ \A i \in 1..Len(image_context) :
             ~DictHas(image_context', image_context[i][1])
             => /\ Last'.op = "completion"
                /\ Last'.injected = image_context[i][2]
                /\ \E j \in 1..Len(Last'.forwarded) :
                      Last'.forwarded[j] = ImageMessage(image_context[i][2])
       /\ (Last'.op = "completion" /\ Last'.injected = None)
          => image_context' = image_context
       /\ Last'.op = "issue" => image_context' = image_context]_vars

(* C14 witness: the entry of a session no request resolved to is still there
   after another session's entry was consumed and a later request injected
   nothing. *)
C14_Witness ==
    /\ next_file = 2 /\ Len(image_context) = 1
    /\ uploads = {1, 2}
    /\ Last.op = "completion" /\ Last.status = 200 /\ Last.injected = None
    /\ Last.session_id # None
    /\ ~DictHas(image_context, Last.session_id)

(* the original messages of a forwarded list, in the order they are in *)
WithoutImage(messages) == SelectSeq(messages, LAMBDA x : x.image_url = None)

(* C15: splice position: a completion request that gets an image injected
   forwards its messages with the image message at index 1 (here 2, lists
   start at 1) if the first message received has role system and at index 0
   (here 1) otherwise; one message is added and the received messages keep
   their order. *)
C15_SplicePosition ==
    [][(Last'.op = "completion" /\ Last'.injected # None /\ Len(Last'.received) > 0)
       => /\ Len(Last'.forwarded) = Len(Last'.received) + 1
          /\ ImageMessagesOf(Last'.forwarded) =
                {IF Last'.received[1].role = "system" THEN 2 ELSE 1}
          /\ \A i \in ImageMessagesOf(Last'.forwarded) :
                Last'.forwarded[i] = ImageMessage(Last'.injected)
          /\ WithoutImage(Last'.forwarded) = Last'.received]_vars

(* C15 witness: [system, user] went out as [system, image, user]. *)
C15_Witness ==
    /\ Last.op = "completion" /\ Last.injected # None
    /\ Last.received = <<Message("system", 1), Message("user", 2)>>
    /\ Last.forwarded =
          <<Message("system", 1), ImageMessage(Last.injected), Message("user", 2)>>

(* C16: splice on empty input: a completion request with an empty message
   list, arriving without a user id while the pending session has the only
   image_context entry, forwards the list holding just the image message and
   removes the entry. *)
C16_SpliceOnEmptyInput ==
    [][(/\ Last'.op = "completion" /\ Last'.received = <<>>
        /\ Last'.uid = Absent
        /\ pending_session_id # None
        /\ Len(image_context) = 1
        /\ DictHas(image_context, pending_session_id))
       => /\ Last'.forwarded = <<ImageMessage(DictGet(image_context, pending_session_id))>>
          /\ ~DictHas(image_context', pending_session_id)]_vars

(* C17: unresolved session is not an error: a completion request whose user
   id is absent or unbound, for which steps 1-3 find no session while
   image_context is empty, is forwarded with its messages as received and
   leaves pending_session_id, session_map and image_context as they are. *)
C17_UnresolvedIsNoError ==
    [][\A u \in UserIds \cup {Absent} :
          (/\ Steps123ResolveNothing(u)
           /\ Len(image_context) = 0
           /\ Completed(u))
          => /\ Last'.session_id = None
             /\ Last'.status = 200
             /\ Last'.forwarded = Last'.received
             /\ UNCHANGED <<pending_session_id, session_map, image_context>>]_vars

(* C17 witness: a request carrying E1 went through with no session while
   nothing was pending and image_context was empty; E1 is still unbound. *)
C17_Witness ==
    /\ Last.op = "completion" /\ Last.uid = "E1" /\ Last.status = 200
    /\ Last.session_id = None /\ Last.forwarded = Last.received
    /\ ~Bound("E1")
    /\ pending_session_id = None /\ image_context = <<>>
    /\ next_session >= 1

(* C18: resolved session without image: a completion request that resolves to
   a session with no image_context entry is forwarded with its messages as
   received and leaves image_context as it is. *)
C18_NoImageIsNoOp ==
    [][(/\ Last'.op = "completion"
        /\ Last'.session_id # None
        /\ ~DictHas(image_context, Last'.session_id))
       => /\ Last'.status = 200
          /\ InjectsNothing
          /\ Last'.forwarded = Last'.received
          /\ image_context' = image_context]_vars

(* C18 witness: a request resolved to a session without an image while
   image_context holds the image of another session, and got none. *)
C18_Witness ==
    /\ Last.op = "completion" /\ Last.status = 200
    /\ Last.session_id # None /\ Last.injected = None
    /\ Last.forwarded = Last.received
    /\ Len(image_context) >= 1
    /\ ~DictHas(image_context, Last.session_id)

(* C19: identifiers never abort the request: an otherwise valid completion
   request reaches the LLM service whatever its identifier fields hold. *)
C19_IdentifiersNeverAbort ==
    [][Last'.op = "completion"
       => (Last'.status = 200 /\ Last'.forwarded # <<>>)]_vars

(* C20: pending session claimed at most once: no two requests carrying
   different user ids have both bound their id to the same session through
   pending_session_id. *)
C20_PendingClaimedOnce ==
    \A t1, t2 \in Threads :
        (/\ t1 # t2
         /\ req[t1].claimed # None
         /\ req[t1].uid # req[t2].uid)
        => req[t1].claimed # req[t2].claimed

(* C21: binding written at most once under concurrency: once a user id is in
   session_map, no statement of any request in flight changes the session it
   is bound to. *)
C21_BindingWrittenOnce ==
    [][\A e \in UserIds :
          Bound(e) => (Bound(e)' /\ session_map'[e] = session_map[e])]_vars

(* C22: no lost upload under concurrency: a statement that takes a session's
   entry out of image_context belongs to a request that has the entry's file
   spliced into its messages. *)
C22_NoLostUpload ==
    [][\A i \in 1..Len(image_context) :
          ~DictHas(image_context', image_context[i][1])
          => \E t \in Threads : req'[t].injected = image_context[i][2]]_vars

(* C23: store-then-record: every filename in image_context is a file in
   UPLOAD_FOLDER, so a completion request injects saved files only; an upload
   whose save fails answers with an error and leaves image_context as it is. *)
C23_StoreThenRecord ==
    [][/\ DictValues(image_context') \subseteq uploads'
       /\ (Last'.op = "completion" /\ Last'.injected # None)
          => Last'.injected \in uploads
       /\ (Last'.op = "upload" /\ Last'.file # None /\ Last'.ext = "fail")
          => /\ Last'.status = 500
             /\ image_context' = image_context
             /\ uploads' = uploads]_vars

(* C23 witness: an upload for a session that has an image failed at the save;
   the session's entry still names the saved file. *)
C23_Witness ==
    /\ Last.op = "upload" /\ Last.ext = "fail" /\ Last.status = 500
    /\ DictHas(image_context, Last.session_id)
    /\ DictGet(image_context, Last.session_id) \in uploads
    /\ Last.file \notin uploads

(* the positions, in possible_user_id_fields, of the fields that are in the
   body with a non-empty value *)
Qualifying(data) ==
    {i \in 1..Len(possible_user_id_fields) :
        data[possible_user_id_fields[i]] \notin {Absent, ""}}

(* C24: identifier probing: the user id of a completion request is the value
   of the first field, in the order of possible_user_id_fields, that is in the
   body with a non-empty value; when no field qualifies the request is handled
   as one without a user id: it binds nothing and claims no pending session. *)
C24_IdentifierProbing ==
    [][(Last'.op = "completion" /\ Last'.pc = "done" /\ Last'.received # <<>>)
       => IF Qualifying(Last'.data) # {}
          THEN \E i \in Qualifying(Last'.data) :
                  /\ \A j \in Qualifying(Last'.data) : i <= j
                  /\ Last'.uid = Last'.data[possible_user_id_fields[i]]
          ELSE /\ ~Truthy(Last'.uid)
               /\ Last'.claimed = None
               /\ session_map' = session_map
               /\ pending_session_id' = pending_session_id]_vars

(* C24 witness: user_id was there with an empty value and the id was taken
   from conversation_id. *)
C24_Witness ==
    /\ Last.op = "completion" /\ Last.status = 200
    /\ Last.data["user_id"] = "" /\ Last.data["conversation_id"] = "E2"
    /\ Last.uid = "E2"
    /\ Bound("E2")

(* C25: complete-before-upload: while user id e is bound to session T, an
   issue call or an upload for another session leaves the binding and T's
   image_context entry as they are, and a completion request carrying e that
   finds an entry T -> img injects img; so an image uploaded for T after e was
   bound is injected into the next request carrying e. *)
C25_CompleteBeforeUpload ==
    [][\A e \in UserIds :
          Bound(e) =>
             /\ (\/ Last'.op = "issue"
                 \/ Last'.op = "upload" /\ Last'.session_id # session_map[e])
                => /\ Bound(e)' /\ session_map'[e] = session_map[e]
                   /\ DictGet(image_context', session_map[e])
                         = DictGet(image_context, session_map[e])
             /\ (Last'.op = "upload" /\ Last'.status = 200
                 /\ Last'.session_id = session_map[e])
                => /\ Bound(e)' /\ session_map'[e] = session_map[e]
                   /\ DictGet(image_context', session_map[e]) = Last'.file
             /\ (Completed(e) /\ DictHas(image_context, session_map[e]))
                => /\ Last'.status = 200
                   /\ Last'.injected = DictGet(image_context, session_map[e])
                   /\ \E i \in 1..Len(Last'.forwarded) :
                         Last'.forwarded[i] = ImageMessage(Last'.injected)]_vars

(* C25 witness: E1 was bound to session 1 by an earlier request, which got no
   image: file 1 belongs to another session and is still waiting, file 2 was
   uploaded for session 1 and the request carrying E1 has just got it, after a
   second session was issued. *)
C25_Witness ==
    /\ Bound("E1") /\ session_map["E1"] = 1
    /\ next_session = 2 /\ pending_session_id = 2
    /\ Len(image_context) = 1 /\ image_context[1][2] = 1 /\ image_context[1][1] # 1
    /\ Last.op = "completion" /\ Last.uid = "E1" /\ Last.claimed = None
    /\ Last.injected = 2 /\ tagged[2] = 1

(* C26: consumption is not undone: a completion request that has an image
   spliced in and whose call of the LLM service fails answers with an error
   and leaves no image_context entry for its session; the same user id sending
   the request again right away gets no image. *)
C26_ConsumptionNotUndone ==
    [][/\ (Last'.op = "completion" /\ Last'.injected # None /\ Last'.ext = "fail")
          => /\ Last'.status = 500
             /\ \E i \in 1..Len(Last'.forwarded) :
                   Last'.forwarded[i] = ImageMessage(Last'.injected)
             /\ DictGet(image_context, Last'.session_id) = Last'.injected
             /\ ~DictHas(image_context', Last'.session_id)
       /\ (/\ Last.op = "completion" /\ Last.status = 500 /\ Last.injected # None
           /\ Truthy(Last.uid)
           /\ Completed(Last.uid))
          => InjectsNothing]_vars

(* C26 witness: the request carrying E1 failed at the LLM service after the
   image of its session was spliced in; the entry is gone. *)
C26_Witness ==
    /\ Last.op = "completion" /\ Last.uid = "E1" /\ Last.ext = "fail"
    /\ Last.status = 500 /\ Last.injected # None
    /\ Bound("E1") /\ session_map["E1"] = Last.session_id
    /\ ~DictHas(image_context, Last.session_id)

(* C27: step 4 also binds: a completion request carrying an unbound user id e
   while nothing is pending and image_context holds two or more entries
   resolves to the session of the entry inserted last, leaves e bound to that
   session and has that entry's image injected. *)
C27_Step4AlsoBinds ==
    [][\A e \in UserIds :
          (/\ ~Bound(e)
           /\ pending_session_id = None
           /\ Len(image_context) >= 2
           /\ Completed(e))
          => /\ Last'.session_id = image_context[Len(image_context)][1]
             /\ Bound(e)' /\ session_map'[e] = image_context[Len(image_context)][1]
             /\ Last'.injected = image_context[Len(image_context)][2]
             /\ \E i \in 1..Len(Last'.forwarded) :
                   Last'.forwarded[i] = ImageMessage(Last'.injected)
             /\ ~DictHas(image_context', Last'.session_id)]_vars

(* C27 witness: two files were uploaded, the second for a session no issue
   call returned; E2 is bound to that session and has just got the second
   file, while the first is still waiting under its own session. *)
C27_Witness ==
    /\ next_file = 2 /\ pending_session_id = None
    /\ Last.op = "completion" /\ Last.uid = "E2" /\ Last.claimed = None
    /\ Last.injected = 2 /\ Last.session_id = ForeignSession
    /\ Bound("E2") /\ session_map["E2"] = ForeignSession
    /\ Len(image_context) = 1 /\ image_context[1][2] = 1

(* C28: a bound id gets its own session's image only: a completion request
   carrying a user id bound to session T injects nothing but the file of T's
   image_context entry, a file uploaded under T; when T has no entry it
   injects nothing and leaves image_context as it is. *)
C28_BoundInjectsOwnImageOnly ==
    [][\A e \in UserIds :
          (Bound(e) /\ Completed(e))
          => /\ Last'.injected # None
                => /\ Last'.injected = DictGet(image_context, session_map[e])
                   /\ tagged[Last'.injected] = session_map[e]
             /\ ~DictHas(image_context, session_map[e])
                => /\ InjectsNothing
                   /\ Last'.forwarded = Last'.received
                   /\ image_context' = image_context]_vars

(* C28 witness: a request carrying the bound id E1 got no image while the
   pending session, another one, has an image waiting. *)
C28_Witness ==
    /\ Last.op = "completion" /\ Last.uid = "E1" /\ Last.status = 200
    /\ Last.claimed = None /\ Last.injected = None
    /\ Bound("E1") /\ Last.session_id = session_map["E1"]
    /\ pending_session_id # None /\ pending_session_id # session_map["E1"]
    /\ DictHas(image_context, pending_session_id)
    /\ ~DictHas(image_context, session_map["E1"])

(* C29: a completion request without a user id leaves pending_session_id and
   session_map as they are and changes image_context at most by removing the
   one entry whose image it injects; the pending session it resolved to is
   still there for the next request carrying an unbound user id, which is
   bound to it. *)
C29_NoIdChangesNoBinding ==
    [][/\ Completed(Absent)
          => /\ UNCHANGED <<pending_session_id, session_map, uploads>>
             /\ IF Last'.injected = None
                THEN image_context' = image_context
                ELSE /\ DictGet(image_context, Last'.session_id) = Last'.injected
                     /\ image_context' = DictPop(image_context, Last'.session_id)
                     /\ Len(image_context') = Len(image_context) - 1
       /\ \A e \in UserIds :
             (/\ Last.op = "completion" /\ Last.uid = Absent /\ Last.status = 200
              /\ Last.session_id # None /\ Last.session_id = pending_session_id
              /\ ~Bound(e)
              /\ Completed(e))
             => (Bound(e)' /\ session_map'[e] = Last.session_id)]_vars

(* C29 witness: a request without a user id resolved to the pending session
   and got its image; the session is still pending and no id is bound. *)
C29_Witness ==
    /\ Last.op = "completion" /\ Last.uid = Absent /\ Last.status = 200
    /\ Last.session_id # None /\ Last.session_id = pending_session_id
    /\ Last.injected # None /\ tagged[Last.injected] = pending_session_id
    /\ image_context = <<>>
    /\ session_map = <<>>

(* C30: pending_session_id is None or the session issued last; it takes a new
   session only in a successful issue call, and that session is one never
   issued before; it goes from a session to None only in a completion request
   whose user id is present and was not bound, which takes that session. *)
C30_PendingSlot ==
    [][/\ pending_session_id \in {None, next_session}
       /\ pending_session_id' \in {None, next_session'}
       /\ (pending_session_id' # pending_session_id /\ pending_session_id' # None)
          => /\ Last'.op = "issue" /\ Last'.status = 200
             /\ pending_session_id' = Last'.session_id
             /\ pending_session_id' = next_session + 1
       /\ (Last'.op = "issue" /\ Last'.status # 200)
          => UNCHANGED <<pending_session_id, next_session>>
       /\ (pending_session_id # None /\ pending_session_id' = None)
          => /\ Last'.op = "completion"
             /\ Truthy(Last'.uid) /\ ~Bound(Last'.uid)
             /\ Last'.claimed = pending_session_id]_vars

(* C30 witness: session 1 was taken out of the slot by E1, session 2 was
   issued and is pending, and a failed issue call has left it there. *)
C30_Witness ==
    /\ next_session = 2 /\ pending_session_id = 2
    /\ Bound("E1") /\ session_map["E1"] = 1
    /\ Last.op = "issue" /\ Last.status = 502

(* the keys of dict d *)
KeySet(d) == {d[i][1] : i \in 1..Len(d)}

(* C31: an upload with a well-formed form is accepted whatever its session_id
   is, issued or not, bound or not; it sets the image_context entry of that
   session_id to the new file and changes nothing else: pending_session_id,
   session_map and the entries of every other session are as they were. *)
C31_UploadFrame ==
    [][(Last'.op = "upload" /\ Last'.file # None)
       => /\ Last'.status = 200
          /\ UNCHANGED <<pending_session_id, session_map>>
          /\ KeySet(image_context') = KeySet(image_context) \cup {Last'.session_id}
          /\ DictGet(image_context', Last'.session_id) = Last'.file
          /\ \A k \in KeySet(image_context) \ {Last'.session_id} :
                DictGet(image_context', k) = DictGet(image_context, k)]_vars

(* C31 witness: an upload for a session_id no issue call returned was
   accepted while another session was pending with an image of its own and a
   third was bound. *)
C31_Witness ==
    /\ Last.op = "upload" /\ Last.status = 200
    /\ Last.session_id = ForeignSession
    /\ DictGet(image_context, ForeignSession) = Last.file
    /\ pending_session_id # None /\ DictHas(image_context, pending_session_id)
    /\ \E e \in DOMAIN session_map : session_map[e] \notin {ForeignSession, pending_session_id}

(* C32: an issue call that the voice platform refuses (request error, or a
   reply without a url field) is answered with an error, draws no session and
   leaves pending_session_id as it was; an issue call stores a session as
   pending only when the platform returned the credential, and answers 200
   then. *)
C32_IssueFailureMintsNothing ==
    [][Last'.op = "issue"
       => /\ Last'.ext \in {"http_error", "no_url"}
             => /\ Last'.status = (IF Last'.ext = "http_error" THEN 502 ELSE 500)
                /\ Last'.session_id = None
                /\ UNCHANGED <<pending_session_id, next_session>>
          /\ (Last'.session_id # None /\ pending_session_id' = Last'.session_id)
             => Last'.ext = "ok" /\ Last'.status = 200]_vars

(* C32 witness: the platform's reply had no url field; session 1, issued
   before and never claimed, is still the pending one and no second session
   was drawn. *)
C32_Witness ==
    /\ Last.op = "issue" /\ Last.ext = "no_url" /\ Last.status = 500
    /\ Last.session_id = None
    /\ next_session = 1 /\ pending_session_id = 1
    /\ session_map = <<>>

(* C34: a completion request that is not JSON, has an empty body, or whose
   messages are missing, not a list or an empty list, and an upload without the
   image, the filename or the session_id, are answered 400 and leave
   pending_session_id, session_map and image_context as they were. *)
C34_RejectedChangesNothing ==
    [][/\ (/\ Last'.op = "completion"
           /\ Last'.body \in {"not_json", "empty_body", "messages_not_list"}
              \/ Last'.received = <<>>)
          => /\ Last'.status = 400
             /\ UNCHANGED <<pending_session_id, session_map, image_context>>
       /\ (/\ Last'.op = "upload"
           /\ Last'.form \in {"no_image", "empty_filename", "no_session_id"})
          => /\ Last'.status = 400
             /\ UNCHANGED <<pending_session_id, session_map, image_context, uploads>>]_vars

(* C34 witness: a completion request with an empty list was rejected while a
   session was pending with an image and nothing was bound: the request
   claimed nothing. *)
C34_Witness ==
    /\ Last.op = "completion" /\ Last.body = "json" /\ Last.status = 400
    /\ Last.claimed = None /\ Last.received = <<>>
    /\ pending_session_id # None /\ DictHas(image_context, pending_session_id)
    /\ session_map = <<>>

(* the deployment names a provider create_llm_service knows, in any spelling *)
Supported == Lower(llm_provider) \in {openai, gemini}

(* C33: a completion request that passes validation while the API key of the
   provider is missing or the provider is unsupported is answered 500; it
   injects nothing, forwards nothing and leaves image_context as it was.  What
   the linking did before the setup stays: a new user id has taken the pending
   session, or the session of the only image_context entry, and a user id that
   resolved to a session is bound to it, so the session's image is there for
   the next request of that user id. *)
C33_SetupFailureKeepsLinking ==
    [][(/\ Last'.op = "completion" /\ Last'.received # <<>>
        /\ ~api_key_set \/ ~Supported)
       => /\ Last'.status = 500
          /\ Last'.injected = None /\ Last'.forwarded = <<>>
          /\ image_context' = image_context
          /\ IF Truthy(Last'.uid) /\ ~Bound(Last'.uid) /\ pending_session_id # None
             THEN /\ session_map' = MapSet(session_map, Last'.uid, pending_session_id)
                  /\ pending_session_id' = None
                  /\ Last'.claimed = pending_session_id
             ELSE IF Truthy(Last'.uid) /\ ~Bound(Last'.uid) /\ Len(image_context) = 1
             THEN /\ session_map' = MapSet(session_map, Last'.uid, image_context[1][1])
                  /\ UNCHANGED pending_session_id
             ELSE UNCHANGED <<session_map, pending_session_id>>
          /\ (Truthy(Last'.uid) /\ Last'.session_id # None)
             => /\ Last'.uid \in DOMAIN session_map'
                /\ session_map'[Last'.uid] = Last'.session_id]_vars

(* C33 witness: the key of the Gemini provider is missing; the request of E1
   took session 1 out of the pending slot, was answered 500, and the image of
   session 1 is still in image_context. *)
C33_Witness ==
    /\ ~api_key_set /\ Lower(llm_provider) = gemini
    /\ Last.op = "completion" /\ Last.uid = "E1" /\ Last.status = 500
    /\ Last.claimed = 1 /\ Last.injected = None
    /\ Bound("E1") /\ session_map["E1"] = 1
    /\ pending_session_id = None
    /\ DictHas(image_context, 1)

(* the spellings of the two supported providers among ProviderNames *)
SpelledOpenAI == {<<"o", "p", "e", "n", "a", "i">>, <<"O", "p", "e", "n", "A", "I">>}
SpelledGemini == {<<"g", "e", "m", "i", "n", "i">>, <<"G", "E", "M", "I", "N", "I">>}

(* C35: create_llm_service makes the OpenAI service of 'openai' and the Gemini
   service of 'gemini' in any spelling and raises ValueError for any other
   name; a completion request that passes validation under an unsupported
   provider whose key is set is answered 500 and nothing goes to a backend. *)
C35_FactoryByName ==
    [][/\ factory'.provider \in SpelledOpenAI => factory'.service = "OpenAIService"
       /\ factory'.provider \in SpelledGemini => factory'.service = "GeminiService"
       /\ (factory'.provider # <<>>
           /\ factory'.provider \notin SpelledOpenAI \cup SpelledGemini)
          => factory'.service = "ValueError"
       /\ (/\ Last'.op = "completion" /\ Last'.received # <<>>
           /\ api_key_set
           /\ llm_provider \notin SpelledOpenAI \cup SpelledGemini)
          => /\ Last'.status = 500
             /\ Last'.service = "none" /\ Last'.reply = "none"
             /\ Last'.forwarded = <<>>]_vars

(* C35 witness: the factory was given GEMINI and made the Gemini service; the
   deployment names a provider the factory does not know, with its key set,
   and a completion request was answered 500. *)
C35_Witness ==
    /\ factory.provider = <<"G", "E", "M", "I", "N", "I">>
    /\ factory.service = "GeminiService"
    /\ api_key_set /\ ~Supported
    /\ Last.op = "completion" /\ Last.received # <<>> /\ Last.status = 500

(* C36: under a supported provider with its key set, a completion request
   whose backend call succeeds is answered 200. *)
C36_BackendReplyReturned ==
    [][(/\ Last'.op = "completion"
        /\ Last'.service \in {"OpenAIService", "GeminiService"}
        /\ Last'.ext = "ok")
       => Last'.status = 200]_vars

====
